---- MODULE Spec2Model ----
(***************************************************************************)
(* Model of cl (src/main.go): a command-line filter that reads lines from  *)
(* stdin, splits each line into fields and prints the selected columns,    *)
(* tab-joined, one output line per processed input line.                   *)
(*                                                                         *)
(* Strings are sequences of one-character strings.  The run is a state     *)
(* machine over the body of run(): the argument loop (one step per         *)
(* positional argument), the empty-columns check, the separator            *)
(* resolution, and the scan loop (one step per scanner.Scan() call).       *)
(***************************************************************************)
EXTENDS Integers, Sequences, FiniteSets, TLC

VARIABLES
    cmd,              \* the parsed command line: [s, t, i, args], never written
    separator,        \* var separator string (flag -s, overwritten by -t)
    useTabSeparator,  \* var useTabSeparator bool (flag -t)
    ignoreHeaderRow,  \* var ignoreHeaderRow bool (flag -i)
    argi,             \* position of the range loop over flag.Args()
    columns,          \* columns map[int64]struct{} : the set of its keys
    separatorRegex,   \* separatorRegex *regexp.Regexp, NoRegex when nil
    firstRow,         \* firstRow local of the scan loop
    consumed,         \* the lines scanner.Scan() has delivered so far
    text,             \* scanner.Text() of the last delivered line
    fields,           \* fields local of the last processed line
    stdout,           \* characters written to stdout
    stderr,           \* messages written to stderr
    usage,            \* TRUE once flag.Usage() printed the usage text
    scanErr,          \* scanner.Err() # nil
    rc,               \* the shell return code of run(), read when pc = "done"
    pc                \* position in run(): "args", "separator", "scan", "err", "done"

vars == <<cmd, separator, useTabSeparator, ignoreHeaderRow, argi, columns,
          separatorRegex, firstRow, consumed, text, fields, stdout, stderr,
          usage, scanErr, rc, pc>>

-----------------------------------------------------------------------------
(* Bounds and input domains *)

MaxArgs == 2
MaxLines == 2
MaxBytes == 4
MaxCol == 3

TAB == "\t"
NL == "\n"

\* Characters an input line is made of (a line never holds its terminator).
Alphabet == {"a", " ", TAB, ","}

\* Positional arguments as they may appear in flag.Args().
Tokens == { <<"1">>, <<"2">>, <<"+", "2">>, <<"0">>, <<"x">>, <<"-", "1">> }

\* Values of the -s flag: unset, a literal, a repetition, a malformed class.
SepFlags == { <<>>, <<",">>, <<",", "+">>, <<"[">> }

\* Lines the scanner delivers in the whole-run specification.
SampleLines == { <<>>,
                 <<"a", " ", "a", "a">>,
                 <<"a", ",", ",", "a", "a">>,
                 <<" ", "a", TAB, "a", "a", " ">>,
                 <<"a", TAB, "a", ",", "a", "a">> }

SeqsUpTo(S, n) == UNION { [1..k -> S] : k \in 0..n }

RECURSIVE Ascending(_)
\* The members of a set of integers in increasing order.
Ascending(S) ==
    IF S = {} THEN <<>>
    ELSE LET m == CHOOSE x \in S : \A y \in S : x <= y
         IN  <<m>> \o Ascending(S \ {m})

RECURSIVE Bytes(_)
\* Size of the consumed input: every line and its terminator.
Bytes(ls) == IF ls = <<>> THEN 0 ELSE Len(Head(ls)) + 1 + Bytes(Tail(ls))

SampleNext == IF Len(consumed) < MaxLines THEN SampleLines ELSE {}

\* Every line that, with its terminator, still fits in MaxBytes of input.
ExhaustiveNext == SeqsUpTo(Alphabet, MaxBytes - Bytes(consumed) - 1)

-----------------------------------------------------------------------------
(* Library functions, as far as the program uses them *)

Digits == {"0", "1", "2", "3", "4", "5", "6", "7", "8", "9"}

DigitVal(d) ==
    CASE d = "0" -> 0 [] d = "1" -> 1 [] d = "2" -> 2 [] d = "3" -> 3
      [] d = "4" -> 4 [] d = "5" -> 5 [] d = "6" -> 6 [] d = "7" -> 7
      [] d = "8" -> 8 [] d = "9" -> 9

RECURSIVE DecimalVal(_, _)
DecimalVal(ds, acc) ==
    IF ds = <<>> THEN acc ELSE DecimalVal(Tail(ds), acc * 10 + DigitVal(Head(ds)))

\* strconv.ParseInt(arg, 10, 64): optional sign, then one or more decimal
\* digits.  (The 64-bit range check cannot trigger on the tokens used.)
ParseInt(arg) ==
    LET signed == arg # <<>> /\ Head(arg) \in {"+", "-"}
        body   == IF signed THEN Tail(arg) ELSE arg
    IN  IF body = <<>> \/ \E k \in 1..Len(body) : body[k] \notin Digits
        THEN [err |-> TRUE, val |-> 0]
        ELSE [err |-> FALSE,
              val |-> IF signed /\ Head(arg) = "-"
                      THEN 0 - DecimalVal(body, 0)
                      ELSE DecimalVal(body, 0)]

NoRegex == [nil |-> TRUE]

MetaChars == {"[", "]", "(", ")", "+", "*", "?", "\\", "|", ".", "^", "$", "{", "}"}

\* regexp.Compile(separator) on the pattern shapes of SepFlags and "\t":
\* a literal character, a literal followed by +, anything else is an error.
Compile(p) ==
    IF Len(p) = 1 /\ p[1] \notin MetaChars
    THEN [err |-> FALSE, re |-> [nil |-> FALSE, ch |-> p[1], plus |-> FALSE]]
    ELSE IF Len(p) = 2 /\ p[1] \notin MetaChars /\ p[2] = "+"
    THEN [err |-> FALSE, re |-> [nil |-> FALSE, ch |-> p[1], plus |-> TRUE]]
    ELSE [err |-> TRUE, re |-> NoRegex]

Whitespace == {" ", TAB}

RECURSIVE FieldsFrom(_, _, _)
FieldsFrom(s, k, cur) ==
    IF k > Len(s)
    THEN IF cur = <<>> THEN <<>> ELSE <<cur>>
    ELSE IF s[k] \in Whitespace
         THEN (IF cur = <<>> THEN <<>> ELSE <<cur>>) \o FieldsFrom(s, k + 1, <<>>)
         ELSE FieldsFrom(s, k + 1, Append(cur, s[k]))

\* strings.Fields(s): the maximal runs of non-whitespace characters.
Fields(s) == FieldsFrom(s, 1, <<>>)

RECURSIVE RunEnd(_, _, _)
\* End offset of the run of ch that covers offset j-1.
RunEnd(ch, s, j) == IF j < Len(s) /\ s[j + 1] = ch THEN RunEnd(ch, s, j + 1) ELSE j

RECURSIVE FindAllFrom(_, _, _)
FindAllFrom(re, s, k) ==
    IF k >= Len(s) THEN <<>>
    ELSE IF s[k + 1] = re.ch
         THEN LET e == IF re.plus THEN RunEnd(re.ch, s, k + 1) ELSE k + 1
              IN  << <<k, e>> >> \o FindAllFrom(re, s, e)
         ELSE FindAllFrom(re, s, k + 1)

\* re.FindAllStringIndex(s, -1): leftmost non-overlapping matches as
\* <<start, end>> byte offsets, end exclusive.
FindAllStringIndex(re, s) == FindAllFrom(re, s, 0)

Slice(s, b, e) == SubSeq(s, b + 1, e)

RECURSIVE SplitLoop(_, _, _, _, _, _)
SplitLoop(s, matches, k, beg, end, strings) ==
    IF k > Len(matches)
    THEN IF end # Len(s) THEN Append(strings, Slice(s, beg, Len(s))) ELSE strings
    ELSE LET m == matches[k]
         IN  SplitLoop(s, matches, k + 1, m[2], m[1],
                       IF m[2] # 0 THEN Append(strings, Slice(s, beg, m[1]))
                                   ELSE strings)

\* Split as strings.Fields would: empty pieces are dropped.
SplitDropEmpty(re, s) ==
    SelectSeq(SplitLoop(s, FindAllStringIndex(re, s), 1, 0, 0, <<>>),
              LAMBDA f : f # <<>>)

\* re.Split(s, -1)
Split(re, s) ==
    IF Len(s) = 0 THEN << <<>> >>
    ELSE SplitLoop(s, FindAllStringIndex(re, s), 1, 0, 0, <<>>)

-----------------------------------------------------------------------------
(* The body of the scan loop *)

\* Lines 166-171: the field sequence of one line.
SplitLine(re, line) == IF re = NoRegex THEN Fields(line) ELSE Split(re, line)

RECURSIVE PrintFromNoSep(_, _, _, _)
\* The field loop without the separator branch of lines 176-178.
PrintFromNoSep(fs, cols, k, printedFirstColumn) ==
    IF k > Len(fs) THEN <<>>
    ELSE IF k \in cols
         THEN fs[k] \o PrintFromNoSep(fs, cols, k + 1, TRUE)
         ELSE PrintFromNoSep(fs, cols, k + 1, printedFirstColumn)

RECURSIVE PrintFromLeadingTab(_, _, _, _)
\* The field loop writing the tab before every column, the first included.
PrintFromLeadingTab(fs, cols, k, printedFirstColumn) ==
    IF k > Len(fs) THEN <<>>
    ELSE IF k \in cols
         THEN <<TAB>> \o fs[k] \o PrintFromLeadingTab(fs, cols, k + 1, TRUE)
         ELSE PrintFromLeadingTab(fs, cols, k + 1, printedFirstColumn)

RECURSIVE PrintFrom(_, _, _, _)
\* Lines 173-182: what the loop over the fields writes, from field k on.
PrintFrom(fs, cols, k, printedFirstColumn) ==
    IF k > Len(fs) THEN <<>>
    ELSE IF k \in cols
         THEN (IF printedFirstColumn THEN <<TAB>> ELSE <<>>) \o fs[k]
              \o PrintFrom(fs, cols, k + 1, TRUE)
         ELSE PrintFrom(fs, cols, k + 1, printedFirstColumn)

\* Lines 173-183: the selected fields and the closing newline.
PrintLine(fs, cols) == PrintFrom(fs, cols, 1, FALSE) \o <<NL>>

-----------------------------------------------------------------------------
(* Messages of run() on stderr *)

Msg(m) == [prefix |-> "ERROR:", msg |-> m]

ParseFailed == Msg("failed to parse argument")
InvalidColumn == Msg("argument is invalid, column indexes must be positive numbers")
BothSeparators == Msg("you cannot use both -s and -t")
BadSeparator == Msg("could not parse separator as a regular expression")
ReadFailed == Msg("failed to read input")

-----------------------------------------------------------------------------
(* The run *)

CmdLines ==
    [s : SepFlags, t : BOOLEAN, i : BOOLEAN, args : SeqsUpTo(Tokens, MaxArgs)]

\* The state in which run() starts on command line c, flag.Parse() (line
\* 110) done and the scanner not yet created.
Start(c) ==
    /\ cmd = c
    /\ separator = c.s
    /\ useTabSeparator = c.t
    /\ ignoreHeaderRow = c.i
    /\ argi = 1
    /\ columns = {}
    /\ separatorRegex = NoRegex
    /\ firstRow = TRUE
    /\ consumed = <<>>
    /\ text = <<>>
    /\ fields = <<>>
    /\ stdout = <<>>
    /\ stderr = <<>>
    /\ usage = FALSE
    /\ scanErr = FALSE
    /\ rc = 0
    /\ pc = "args"

Init == \E c \in CmdLines : Start(c)

\* return 1 after a message on stderr
Fail(m) ==
    /\ stderr' = Append(stderr, m)
    /\ rc' = 1
    /\ pc' = "done"

\* The argument loop overwriting the column set instead of adding to it.
ParseArgLastWins ==
    /\ pc = "args"
    /\ argi <= Len(cmd.args)
    /\ LET r == ParseInt(cmd.args[argi])
       IN  IF r.err
           THEN Fail(ParseFailed) /\ UNCHANGED <<columns, argi>>
           ELSE IF r.val < 1
                THEN Fail(InvalidColumn) /\ UNCHANGED <<columns, argi>>
                ELSE /\ columns' = {r.val}
                     /\ argi' = argi + 1
                     /\ UNCHANGED <<stderr, rc, pc>>
    /\ UNCHANGED <<cmd, separator, useTabSeparator, ignoreHeaderRow,
                   separatorRegex, firstRow, consumed, text, fields, stdout,
                   usage, scanErr>>

\* The argument loop stepping over a value < 1 instead of failing on it.
ParseArgSkipInvalid ==
    /\ pc = "args"
    /\ argi <= Len(cmd.args)
    /\ LET r == ParseInt(cmd.args[argi])
       IN  IF r.err
           THEN Fail(ParseFailed) /\ UNCHANGED <<columns, argi>>
           ELSE /\ columns' = IF r.val < 1 THEN columns ELSE columns \cup {r.val}
                /\ argi' = argi + 1
                /\ UNCHANGED <<stderr, rc, pc>>
    /\ UNCHANGED <<cmd, separator, useTabSeparator, ignoreHeaderRow,
                   separatorRegex, firstRow, consumed, text, fields, stdout,
                   usage, scanErr>>

\* Lines 116-127: one iteration of the loop over flag.Args().
ParseArg ==
    /\ pc = "args"
    /\ argi <= Len(cmd.args)
    /\ LET r == ParseInt(cmd.args[argi])
       IN  IF r.err
           THEN Fail(ParseFailed) /\ UNCHANGED <<columns, argi>>
           ELSE IF r.val < 1
                THEN Fail(InvalidColumn) /\ UNCHANGED <<columns, argi>>
                ELSE /\ columns' = columns \cup {r.val}
                     /\ argi' = argi + 1
                     /\ UNCHANGED <<stderr, rc, pc>>
    /\ UNCHANGED <<cmd, separator, useTabSeparator, ignoreHeaderRow,
                   separatorRegex, firstRow, consumed, text, fields, stdout,
                   usage, scanErr>>

\* The run without the empty-columns check of lines 129-132.
CheckColumnsNoUsage ==
    /\ pc = "args"
    /\ argi > Len(cmd.args)
    /\ pc' = "separator"
    /\ UNCHANGED <<cmd, separator, useTabSeparator, ignoreHeaderRow, argi,
                   columns, separatorRegex, firstRow, consumed, text, fields,
                   stdout, stderr, usage, scanErr, rc>>

\* Lines 129-132: after the loop, no column means usage and os.Exit(1).
CheckColumns ==
    /\ pc = "args"
    /\ argi > Len(cmd.args)
    /\ IF Cardinality(columns) = 0
       THEN usage' = TRUE /\ rc' = 1 /\ pc' = "done"
       ELSE pc' = "separator" /\ UNCHANGED <<usage, rc>>
    /\ UNCHANGED <<cmd, separator, useTabSeparator, ignoreHeaderRow, argi,
                   columns, separatorRegex, firstRow, consumed, text, fields,
                   stdout, stderr, scanErr>>

\* The separator resolution without the -s/-t conflict check: -t wins.
ResolveSeparatorTabWins ==
    /\ pc = "separator"
    /\ LET sep == IF useTabSeparator THEN <<TAB>> ELSE separator
           c   == Compile(sep)
       IN  /\ separator' = sep
           /\ IF sep # <<>> /\ c.err
              THEN Fail(BadSeparator) /\ UNCHANGED <<separatorRegex, firstRow>>
              ELSE /\ separatorRegex' = IF sep # <<>> THEN c.re ELSE NoRegex
                   /\ firstRow' = TRUE
                   /\ pc' = "scan"
                   /\ UNCHANGED <<stderr, rc>>
    /\ UNCHANGED <<cmd, useTabSeparator, ignoreHeaderRow, argi, columns,
                   consumed, text, fields, stdout, usage, scanErr>>

\* Lines 137-159: resolve the separator, then set up the scan loop.
ResolveSeparator ==
    /\ pc = "separator"
    /\ IF separator # <<>> /\ useTabSeparator
       THEN Fail(BothSeparators) /\ UNCHANGED <<separator, separatorRegex, firstRow>>
       ELSE LET sep == IF useTabSeparator THEN <<TAB>> ELSE separator
                c   == Compile(sep)
            IN  /\ separator' = sep
                /\ IF sep # <<>> /\ c.err
                   THEN Fail(BadSeparator) /\ UNCHANGED <<separatorRegex, firstRow>>
                   ELSE /\ separatorRegex' = IF sep # <<>> THEN c.re ELSE NoRegex
                        /\ firstRow' = TRUE
                        /\ pc' = "scan"
                        /\ UNCHANGED <<stderr, rc>>
    /\ UNCHANGED <<cmd, useTabSeparator, ignoreHeaderRow, argi, columns,
                   consumed, text, fields, stdout, usage, scanErr>>

\* The scan loop skipping on ignoreHeaderRow alone, firstRow never consulted.
ScanLineSkipAll(avail) ==
    /\ pc = "scan"
    /\ \E line \in avail :
         /\ consumed' = Append(consumed, line)
         /\ text' = line
         /\ IF ignoreHeaderRow
            THEN /\ firstRow' = FALSE
                 /\ UNCHANGED <<fields, stdout>>
            ELSE /\ fields' = SplitLine(separatorRegex, line)
                 /\ stdout' = stdout \o PrintLine(fields', columns)
                 /\ UNCHANGED firstRow
    /\ UNCHANGED <<cmd, separator, useTabSeparator, ignoreHeaderRow, argi,
                   columns, separatorRegex, stderr, usage, scanErr, rc, pc>>

\* The scan loop with firstRow set again after every processed line.
ScanLineRearm(avail) ==
    /\ pc = "scan"
    /\ \E line \in avail :
         /\ consumed' = Append(consumed, line)
         /\ text' = line
         /\ IF firstRow /\ ignoreHeaderRow
            THEN /\ firstRow' = FALSE
                 /\ UNCHANGED <<fields, stdout>>
            ELSE /\ fields' = SplitLine(separatorRegex, line)
                 /\ stdout' = stdout \o PrintLine(fields', columns)
                 /\ firstRow' = TRUE
    /\ UNCHANGED <<cmd, separator, useTabSeparator, ignoreHeaderRow, argi,
                   columns, separatorRegex, stderr, usage, scanErr, rc, pc>>

\* Lines 160-184: scanner.Scan() delivers a line of avail; one loop iteration.
ScanLine(avail) ==
    /\ pc = "scan"
    /\ \E line \in avail :
         /\ consumed' = Append(consumed, line)
         /\ text' = line
         /\ IF firstRow /\ ignoreHeaderRow
            THEN /\ firstRow' = FALSE
                 /\ UNCHANGED <<fields, stdout>>
            ELSE /\ fields' = SplitLine(separatorRegex, line)
                 /\ stdout' = stdout \o PrintLine(fields', columns)
                 /\ UNCHANGED firstRow
    /\ UNCHANGED <<cmd, separator, useTabSeparator, ignoreHeaderRow, argi,
                   columns, separatorRegex, stderr, usage, scanErr, rc, pc>>

\* Line 160: scanner.Scan() returns false, at the end of the input (failed
\* FALSE) or on a read error (failed TRUE), which scanner.Err() then reports.
ScanStop(failed) ==
    /\ pc = "scan"
    /\ scanErr' = failed
    /\ pc' = "err"
    /\ UNCHANGED <<cmd, separator, useTabSeparator, ignoreHeaderRow, argi,
                   columns, separatorRegex, firstRow, consumed, text, fields,
                   stdout, stderr, usage, rc>>

\* The end of run() returning 0 without looking at scanner.Err().
CheckErrIgnored ==
    /\ pc = "err"
    /\ rc' = 0
    /\ pc' = "done"
    /\ UNCHANGED <<cmd, separator, useTabSeparator, ignoreHeaderRow, argi,
                   columns, separatorRegex, firstRow, consumed, text, fields,
                   stdout, stderr, usage, scanErr>>

\* Lines 185-189: the return code after the loop.
CheckErr ==
    /\ pc = "err"
    /\ IF scanErr
       THEN Fail(ReadFailed)
       ELSE rc' = 0 /\ pc' = "done" /\ UNCHANGED stderr
    /\ UNCHANGED <<cmd, separator, useTabSeparator, ignoreHeaderRow, argi,
                   columns, separatorRegex, firstRow, consumed, text, fields,
                   stdout, usage, scanErr>>

ScanSample == ScanLine(SampleNext)

ScanEof == ScanStop(FALSE)

ScanFail == ScanStop(TRUE)

Next ==
    \/ ParseArg
    \/ CheckColumns
    \/ ResolveSeparator
    \/ ScanSample
    \/ ScanEof
    \/ ScanFail
    \/ CheckErr

Spec == Init /\ [][Next]_vars

\* Every input is finite: the scanner eventually reports the end or an error.
FairSpec == Spec /\ WF_vars(Next)

-----------------------------------------------------------------------------
(* The run over every line the alphabet can form, within MaxBytes of input *)

\* The positional arguments "c1 c2 ..." naming the columns cols in order.
ColumnArgs(cols) ==
    LET cs == Ascending(cols)
    IN  [k \in 1..Len(cs) |-> << CHOOSE d \in Digits : DigitVal(d) = cs[k] >>]

ColumnCmdLines ==
    { [s |-> s, t |-> t, i |-> i, args |-> ColumnArgs(cols)] :
        s \in SepFlags, t \in BOOLEAN, i \in BOOLEAN, cols \in SUBSET (1..MaxCol) }

InitLine == \E c \in ColumnCmdLines : Start(c)

ScanAll == ScanLine(ExhaustiveNext)

NextLine ==
    \/ ParseArg
    \/ CheckColumns
    \/ ResolveSeparator
    \/ ScanAll
    \/ ScanEof
    \/ ScanFail
    \/ CheckErr

SpecLine == InitLine /\ [][NextLine]_vars

-----------------------------------------------------------------------------
(* Reference definitions for the properties *)

\* A step that reads a line and does not skip it as the header.
Processed ==
    /\ Len(consumed') = Len(consumed) + 1
    /\ ~(cmd.i /\ consumed = <<>>)

\* The text the step wrote to stdout, without its last character.
EmittedLine == SubSeq(stdout', Len(stdout) + 1, Len(stdout') - 1)

\* The requested columns that have a field in fs.
Present(fs, cols) == cols \cap (1..Len(fs))

Selected(fs, cols) ==
    LET idx == Ascending(Present(fs, cols))
    IN  [k \in 1..Len(idx) |-> fs[idx[k]]]

RECURSIVE JoinTab(_)
JoinTab(ss) ==
    IF ss = <<>> THEN <<>>
    ELSE IF Len(ss) = 1 THEN ss[1]
    ELSE ss[1] \o <<TAB>> \o JoinTab(Tail(ss))

ExpectedLine(fs, cols) == JoinTab(Selected(fs, cols)) \o <<NL>>

\* Tab-separated tokens of an output line; the empty line has none.
TabTokens(l) ==
    IF l = <<>> THEN 0 ELSE 1 + Cardinality({ k \in 1..Len(l) : l[k] = TAB })

HasTab(f) == \E k \in 1..Len(f) : f[k] = TAB

\* The maximal runs of non-whitespace characters of s, left to right.
WordStarts(s) ==
    { k \in 1..Len(s) : s[k] \notin {" ", TAB} /\ (k = 1 \/ s[k - 1] \in {" ", TAB}) }

WordStop(s, k) ==
    CHOOSE e \in k..Len(s) :
        /\ \A j \in k..e : s[j] \notin {" ", TAB}
        /\ e = Len(s) \/ s[e + 1] \in {" ", TAB}

Words(s) ==
    LET st == Ascending(WordStarts(s))
    IN  [j \in 1..Len(st) |-> SubSeq(s, st[j], WordStop(s, st[j]))]

\* The occurrences of a separator in s: every ch, or every maximal run of ch.
SepStarts(s, ch, plus) ==
    { k \in 1..Len(s) : s[k] = ch /\ (~plus \/ k = 1 \/ s[k - 1] # ch) }

SepStop(s, ch, plus, k) ==
    IF plus
    THEN CHOOSE e \in k..Len(s) :
             /\ \A j \in k..e : s[j] = ch
             /\ e = Len(s) \/ s[e + 1] # ch
    ELSE k

\* What lies before, between and after the occurrences, empty pieces kept.
Pieces(s, ch, plus) ==
    LET st == Ascending(SepStarts(s, ch, plus))
        n  == Len(st)
    IN  [j \in 1..(n + 1) |->
            SubSeq(s, IF j = 1 THEN 1 ELSE SepStop(s, ch, plus, st[j - 1]) + 1,
                      IF j = n + 1 THEN Len(s) ELSE st[j] - 1)]

-----------------------------------------------------------------------------
(* Properties of one processed line (specification SpecLine) *)

\* C1: the line written for a processed input line is exactly the fields
\* whose 1-based position is in the column set, in field order, joined by
\* single tabs and closed by one newline; columns beyond the field count add
\* nothing, and with no selected field the line is the newline alone.
C1_OutputLine ==
    [][Processed => stdout' = stdout \o ExpectedLine(fields', columns)]_vars

\* Example 5 of the specification: "a a" with columns {1,3} gives "a\n".
C1_Witness ==
    /\ columns = {1, 3}
    /\ text = <<"a", " ", "a">>
    /\ fields = << <<"a">>, <<"a">> >>
    /\ stdout = <<"a", NL>>

\* C2 as stated: for every processed line the number of tab-separated tokens
\* of the output line equals the number of requested columns that have a
\* field in the line.
C2_TokenCount ==
    [][Processed =>
        TabTokens(EmittedLine) = Cardinality(Present(fields', columns))]_vars

\* No selected field holds a tab, and the selection is not one empty field.
Unambiguous(fs, cols) ==
    /\ \A k \in Present(fs, cols) : ~HasTab(fs[k])
    /\ ~(Cardinality(Present(fs, cols)) = 1 /\ \A k \in Present(fs, cols) : fs[k] = <<>>)

\* C2 amended: the token count equals the number of requested columns present
\* for every line under the default separator, and under a regex separator
\* for every line whose selected fields hold no tab and are not a single
\* empty field.
C2_TokenCountAmended ==
    [][(Processed /\ (separatorRegex = NoRegex \/ Unambiguous(fields', columns)))
        => TabTokens(EmittedLine) = Cardinality(Present(fields', columns))]_vars

\* "a,," under -s "," with columns {2,3}: two empty fields, two tokens.
C2_Witness ==
    /\ cmd.s = <<",">>
    /\ columns = {2, 3}
    /\ text = <<"a", ",", ",">>
    /\ fields = << <<"a">>, <<>>, <<>> >>
    /\ stdout = <<TAB, NL>>

\* C9: with neither -s nor -t the fields of a processed line are its maximal
\* runs of non-whitespace characters (none empty, none for a blank line);
\* with -t they are the pieces around every tab and with -s the pieces around
\* every occurrence of the pattern, empty pieces included; the compiled
\* separator never changes while scanning.
C9_Splitting ==
    [][/\ Processed =>
            /\ (cmd.s = <<>> /\ ~cmd.t) =>
                   /\ fields' = Words(text')
                   /\ \A k \in 1..Len(fields') : fields'[k] # <<>>
                   /\ (\A j \in 1..Len(text') : text'[j] \in {" ", TAB}) => fields' = <<>>
            /\ cmd.t =>
                   /\ fields' = Pieces(text', TAB, FALSE)
                   /\ Len(fields') = Cardinality(SepStarts(text', TAB, FALSE)) + 1
            /\ cmd.s # <<>> =>
                   /\ fields' = Pieces(text', cmd.s[1], Len(cmd.s) = 2)
                   /\ Len(fields') =
                          Cardinality(SepStarts(text', cmd.s[1], Len(cmd.s) = 2)) + 1
       /\ pc = "scan" => separatorRegex' = separatorRegex]_vars

\* ",,a" under -s ",": three fields, two of them empty, column 3 is "a".
C9_Witness ==
    /\ cmd.s = <<",">>
    /\ columns = {3}
    /\ text = <<",", ",", "a">>
    /\ fields = << <<>>, <<>>, <<"a">> >>
    /\ stdout = <<"a", NL>>

-----------------------------------------------------------------------------
(* Properties of the whole run (specifications Spec and FairSpec) *)

\* Positions of the positional arguments that are not integers >= 1.
BadArgs ==
    { k \in 1..Len(cmd.args) :
        ParseInt(cmd.args[k]).err \/ ParseInt(cmd.args[k]).val < 1 }

FirstBad == CHOOSE k \in BadArgs : \A j \in BadArgs : k <= j

\* The set of values the positional arguments name.
ArgValues == { ParseInt(cmd.args[k]).val : k \in 1..Len(cmd.args) }

\* Number of leading lines the header skip takes from the lines read.
Skip == IF cmd.i /\ Len(consumed) >= 1 THEN 1 ELSE 0

RECURSIVE OutputFor(_, _, _)
\* The output for lines k.. of ls when the column set is cols.
OutputFor(ls, k, cols) ==
    IF k > Len(ls) THEN <<>>
    ELSE ExpectedLine(SplitLine(separatorRegex, ls[k]), cols)
         \o OutputFor(ls, k + 1, cols)

RECURSIVE OutLinesFrom(_, _, _)
OutLinesFrom(s, k, cur) ==
    IF k > Len(s)
    THEN IF cur = <<>> THEN <<>> ELSE <<cur>>
    ELSE IF s[k] = NL
         THEN <<cur>> \o OutLinesFrom(s, k + 1, <<>>)
         ELSE OutLinesFrom(s, k + 1, Append(cur, s[k]))

\* The lines of an output stream, terminators removed.
OutLines(s) == OutLinesFrom(s, 1, <<>>)

ConfigMessages == {ParseFailed, InvalidColumn, BothSeparators, BadSeparator}

\* The run ended on a configuration failure.
ConfigFailed ==
    usage \/ \E k \in 1..Len(stderr) : stderr[k] \in ConfigMessages

\* The command line holds one of the configuration errors.
ConfigTrigger ==
    \/ BadArgs # {}
    \/ cmd.args = <<>>
    \/ cmd.s # <<>> /\ cmd.t
    \/ cmd.s # <<>> /\ Compile(cmd.s).err

\* C3: for valid column arguments the output and the status are those of the
\* set of values named, whatever the order and multiplicity of the arguments,
\* and fields are emitted in field order.
C3_SetSemantics ==
    BadArgs = {} =>
        /\ stdout = OutputFor(consumed, Skip + 1, ArgValues)
        /\ pc = "done" =>
               rc = IF \/ ArgValues = {}
                       \/ cmd.s # <<>> /\ cmd.t
                       \/ cmd.s # <<>> /\ Compile(cmd.s).err
                       \/ scanErr
                    THEN 1 ELSE 0

\* Arguments "2 1" on the line "a aa": the output is "a\taa\n".
C3_Witness ==
    /\ cmd.args = << <<"2">>, <<"1">> >>
    /\ pc = "done"
    /\ rc = 0
    /\ consumed = << <<"a", " ", "a", "a">> >>
    /\ stdout = <<"a", TAB, "a", "a", NL>>

\* C4: the output holds one newline-terminated line per processed input line,
\* in input order: n lines without -i, n-1 lines with -i (the first read line
\* and no other is left out), the k-th made from input line k (k+1 with -i).
C4_LinePerLine ==
    LET out == OutLines(stdout)
    IN  /\ stdout = <<>> \/ stdout[Len(stdout)] = NL
        /\ Len(out) = Len(consumed) - Skip
        /\ \A k \in 1..Len(out) :
               out[k] \o <<NL>> =
                   PrintLine(SplitLine(separatorRegex, consumed[k + Skip]), columns)

\* With -i, two identical non-empty lines: the second one is still printed.
C4_Witness ==
    /\ cmd.i
    /\ pc = "done"
    /\ Len(consumed) = 2
    /\ consumed[1] = consumed[2]
    /\ consumed[1] # <<>>
    /\ Len(OutLines(stdout)) = 1
    /\ stdout # <<NL>>

\* C5 as stated: with -t and a non-empty -s, whatever the positional
\* arguments, the run ends with the both-separators error, a non-zero status
\* and no input read.
C5_Conflict ==
    (cmd.t /\ cmd.s # <<>> /\ pc = "done") =>
        /\ stderr = <<BothSeparators>>
        /\ rc # 0
        /\ consumed = <<>>

\* C5 amended: with -t and a non-empty -s the run never reads input and ends
\* with a non-zero status; it reports the both-separators error when the
\* positional arguments are a non-empty list of valid column numbers.
C5_ConflictAmended ==
    (cmd.t /\ cmd.s # <<>>) =>
        /\ consumed = <<>>
        /\ pc \notin {"scan", "err"}
        /\ pc = "done" =>
               /\ rc # 0
               /\ (BadArgs = {} /\ cmd.args # <<>>) => stderr = <<BothSeparators>>

C5_Witness ==
    /\ cmd.t
    /\ cmd.s = <<",">>
    /\ cmd.args = << <<"1">> >>
    /\ pc = "done"
    /\ stderr = <<BothSeparators>>
    /\ rc = 1

\* C6: the error reported is that of the first positional token that does not
\* parse or is < 1, no later token is examined, and the usage text is printed
\* exactly when there is no positional argument.
C6_FailFast ==
    /\ BadArgs # {} =>
           /\ argi <= FirstBad
           /\ ~usage
           /\ pc \in {"args", "done"}
           /\ pc = "done" =>
                  /\ argi = FirstBad
                  /\ rc = 1
                  /\ stderr = << IF ParseInt(cmd.args[FirstBad]).err
                                 THEN ParseFailed ELSE InvalidColumn >>
                  /\ columns =
                         { ParseInt(cmd.args[k]).val : k \in 1..(FirstBad - 1) }
    /\ usage => cmd.args = <<>> /\ pc = "done" /\ rc # 0
    /\ (cmd.args = <<>> /\ pc # "args") => usage

\* Arguments "0 x": the run reports the invalid column, not the parse error.
C6_Witness ==
    /\ cmd.args = << <<"0">>, <<"x">> >>
    /\ pc = "done"
    /\ argi = 1
    /\ stderr = <<InvalidColumn>>

\* C7: a command line with a configuration error never reaches the scan loop,
\* reads no line, writes no output line and ends with a non-zero status; a
\* line is read only with a non-empty column set of integers >= 1 and a
\* resolved separator.
C7_ConfigFailure ==
    /\ ConfigTrigger =>
           /\ consumed = <<>>
           /\ stdout = <<>>
           /\ pc \notin {"scan", "err"}
           /\ pc = "done" => rc # 0 /\ ConfigFailed
    /\ (consumed # <<>> \/ pc \in {"scan", "err"}) =>
           /\ columns # {}
           /\ \A c \in columns : c >= 1
           /\ \/ separator = <<>> /\ separatorRegex = NoRegex
              \/ /\ separator # <<>>
                 /\ ~Compile(separator).err
                 /\ separatorRegex = Compile(separator).re

\* -s "[" with a valid column: the separator does not compile.
C7_Witness ==
    /\ cmd.s = <<"[">>
    /\ ~cmd.t
    /\ pc = "done"
    /\ stderr = <<BadSeparator>>
    /\ rc = 1
    /\ columns # {}

\* The scan loop has been entered.
ScanStarted == pc \in {"scan", "err"} \/ (pc = "done" /\ ~ConfigFailed)

\* C8: once scanning has started the run reaches the end; after a clean end
\* of input the status is 0 and stderr is empty, after a read error the
\* status is non-zero and stderr holds the "ERROR:" read-failure message; once
\* the scanner has stopped no line is read and stdout is left as it was.
C8_ScanOutcome ==
    /\ (pc = "scan") ~> (pc = "done")
    /\ [](pc = "done" /\ ScanStarted =>
             IF scanErr
             THEN rc # 0 /\ stderr = <<ReadFailed>> /\ stderr[1].prefix = "ERROR:"
             ELSE rc = 0 /\ stderr = <<>>)
    /\ [][(pc # "scan" \/ pc' # "scan") =>
              stdout' = stdout /\ consumed' = consumed]_vars

\* A read error after two lines, with output already written.
C8_Witness ==
    /\ pc = "done"
    /\ scanErr
    /\ rc = 1
    /\ stderr = <<ReadFailed>>
    /\ Len(consumed) = 2
    /\ stdout # <<>>

\* C10 as stated: in every state after the first line has been read the
\* first-line flag is false, with or without -i.
C10_FlagConsumed == consumed # <<>> => firstRow = FALSE

\* C10 amended: with -i the flag is false in every state after the first line
\* has been read; without -i it stays true for the whole run; once false it
\* never becomes true again.
C10_FlagAmended ==
    /\ []((consumed # <<>> /\ ignoreHeaderRow) => ~firstRow)
    /\ [](~ignoreHeaderRow => firstRow)
    /\ [](consumed = <<>> => firstRow)
    /\ [][~firstRow => ~firstRow']_vars

\* With -i, two lines read: the flag is false and the second line printed.
C10_Witness ==
    /\ ignoreHeaderRow
    /\ Len(consumed) = 2
    /\ ~firstRow
    /\ stdout # <<>>

====
